---------------------------- MODULE Spec2Model ----------------------------
(***************************************************************************)
(* A model of pkg/nuclide-clang/lib/utils.js: findIncludingSourceFile and  *)
(* its helper processGrepResult; and, each with a specification of its     *)
(* own, of limitString and the Activation of the test runner package, of   *)
(* Section of nuclide-ui and of DiagnosticsPanelModel.                     *)
(*                                                                         *)
(* Representation.  A character is a one-character string, a path segment  *)
(* is a sequence of characters, and a path is a sequence of segments (the  *)
(* "/" separators are implicit).  File names and header files are absolute *)
(* normalized paths; the text of an include directive is a relative path.  *)
(* A source line is a record                                               *)
(*    [directive, gap, open, inc, close]                                   *)
(* for  <directive><gap whitespace characters><open><inc><close> .         *)
(* One line of grep output is the sequence of its "\0"-separated fields:   *)
(* <<filename, line>>, or a single field when grep printed no separator    *)
(* (its "Binary file ... matches" notice).                                 *)
(***************************************************************************)
EXTENDS Integers, Sequences, FiniteSets, TLC

VARIABLES
    headerFile,   \* argument of findIncludingSourceFile (absolute path)
    headerOf,     \* headerOf[i]: the headerFile of the call subscription i
                  \* belongs to
    projectRoot,  \* argument of findIncludingSourceFile (absolute path)
    fs,           \* the files on disk: records [path, binary, line]
    state,        \* state[i]: the i-th subscription to the returned Observable
    proc,         \* proc[i]: the grep process of subscription i
    pending,      \* pending[i]: grep output lines not yet delivered
    emitted,      \* emitted[i]: the values delivered to subscriber i, in order
    foundBy,      \* foundBy[i]: the output lines that produced emitted values
    error,        \* error[i]: the error subscriber i was terminated with
    exitCode,     \* exitCode[i]: exit code of the process, -1 while none
    spawned,      \* number of calls of spawnGrepProcess so far
    log,          \* log[i]: the messages the process of i delivered, in
                  \* order (kept by the specifications that observe order)
    limitArgs,    \* the arguments of a call of limitString: <<str>> or
                  \* <<str, length>>
    limitResult,  \* the values the call returned: none, or one string
    sectionProps,  \* this.props of a mounted Section
    isCollapsed,   \* this.state.isCollapsed of the Section
    onChangeCalls, \* the arguments props.onChange was called with, in order
    toggles,       \* number of calls of _toggleCollapsed so far
    visibility,    \* the value of the BehaviorSubject _visibility
    reported,      \* the arguments of didChangeVisibility so far, in order
    propsEmitted,  \* number of values the props stream emitted so far; the
                   \* n-th value is n
    latest,        \* the value publishReplay(1) holds: none, or one
    delivered,     \* the values _props delivered to its subscriber, in order
    activation,    \* the module's variable activation: 0 for none, else the
                   \* number of the live Activation
    activations,   \* number of Activations constructed so far
    testRunners,   \* testRunners[a]: _testRunners of Activation a
    controllers,   \* controllers[a]: number of TestRunnerControllers that
                   \* Activation a constructed; _controller is its last
    updates,       \* updates[a]: calls of didUpdateTestRunners on the
                   \* controller of Activation a
    registrations, \* the Disposables addTestRunner returned, in order:
                   \* records [activation, runner, disposed]
    lastCall,      \* the last call made on the package and what it returned
    commands,      \* commands[a]: the commands Activation a registered that
                   \* are still registered with atom.commands
    disposals,     \* disposals[a]: calls of dispose() on Activation a
    menus          \* the calls of addItemsToFileTreeContextMenu, in order:
                   \* records [activation, subscribed, items, disposed]

\* the variables of the search
searchVars == <<headerFile, headerOf, projectRoot, fs, state, proc, pending,
                emitted, foundBy, error, exitCode, spawned>>

\* the variables of the other components
\* the variables of limitString
limitVars == <<limitArgs, limitResult>>

\* the variables of Section
sectionVars == <<sectionProps, isCollapsed, onChangeCalls, toggles>>

\* the variables of DiagnosticsPanelModel
panelVars == <<visibility, reported, propsEmitted, latest, delivered>>

\* the variables of the test runner package
activationVars == <<activation, activations, testRunners, controllers,
                    updates, registrations, lastCall, commands, disposals,
                    menus>>

others == <<log, limitVars, sectionVars, panelVars, activationVars>>

vars == <<searchVars, others>>

---------------------------------------------------------------------------
(* Bounds of the model *)

\* subscriptions made to the Observable returned by one call
MaxSubs == 2

\* files on disk
MaxFiles == 2

---------------------------------------------------------------------------
(* Characters, segments, extensions *)

Seg1(a) == <<a>>
Seg2(a, b) == <<a, b>>
Seg3(a, b, c) == <<a, b, c>>

DotDot == Seg2(".", ".")
Dot == Seg1(".")

\* utils.js:21
HEADER_EXTENSIONS ==
    { <<".", "h">>, <<".", "h", "h">>, <<".", "h", "p", "p">>,
      <<".", "h", "x", "x">>, <<".", "h", "+", "+">> }

\* utils.js:22
SOURCE_EXTENSIONS ==
    { <<".", "c">>, <<".", "c", "c">>, <<".", "c", "p", "p">>,
      <<".", "c", "x", "x">>, <<".", "c", "+", "+">>, <<".", "m">>,
      <<".", "m", "m">> }

---------------------------------------------------------------------------
(* Node's path module, on sequences of segments *)

\* path.basename: the last segment
Basename(p) == IF p = <<>> THEN <<>> ELSE p[Len(p)]

\* path.dirname of an absolute path
Dirname(p) == IF p = <<>> THEN <<>> ELSE SubSeq(p, 1, Len(p) - 1)

\* index of the last "." of a segment, 0 when there is none
LastDot(s) ==
    LET ix == {k \in 1..Len(s) : s[k] = "."}
    IN  IF ix = {} THEN 0 ELSE CHOOSE k \in ix : \A j \in ix : j <= k

\* path.extname: from the last "." of the basename to its end; empty when
\* there is no "." or the only "." is the first character.  A basename
\* made of dots only ("..") has no extension either.
Extname(p) ==
    LET b == Basename(p)
        d == LastDot(b)
    IN  IF d <= 1 \/ b = DotDot THEN <<>> ELSE SubSeq(b, d, Len(b))

RECURSIVE NormAbs(_, _)
\* path.normalize of the absolute path whose segments are acc \o rest:
\* "." is dropped, ".." removes the segment before it (and is dropped at
\* the root).
NormAbs(acc, rest) ==
    IF rest = <<>> THEN acc
    ELSE LET s == Head(rest)
         IN  IF s = Dot THEN NormAbs(acc, Tail(rest))
             ELSE IF s = DotDot
                  THEN NormAbs(IF acc = <<>> THEN <<>>
                               ELSE SubSeq(acc, 1, Len(acc) - 1), Tail(rest))
                  ELSE NormAbs(Append(acc, s), Tail(rest))

\* path.normalize(path.join(dir, rel)) for an absolute dir
NormalizeJoin(dir, rel) == NormAbs(<<>>, dir \o rel)

RECURSIVE CommonPrefixLen(_, _)
CommonPrefixLen(a, b) ==
    IF a = <<>> \/ b = <<>> \/ Head(a) # Head(b) THEN 0
    ELSE 1 + CommonPrefixLen(Tail(a), Tail(b))

\* path.relative(from, to) for absolute normalized paths: one ".." for each
\* segment of `from` below the common ancestor, then the rest of `to`
Relative(from, to) ==
    LET c == CommonPrefixLen(from, to)
    IN  [k \in 1..(Len(from) - c) |-> DotDot] \o SubSeq(to, c + 1, Len(to))

\* dir is p or an ancestor of p
IsUnder(p, dir) == Len(dir) <= Len(p) /\ SubSeq(p, 1, Len(dir)) = dir

---------------------------------------------------------------------------
(* utils.js *)

isHeaderFile(filename) == Extname(filename) \in HEADER_EXTENSIONS

isSourceFile(filename) == Extname(filename) \in SOURCE_EXTENSIONS

\* The value of a capture group that did not take part in the match
Undefined == <<>>

\* "no match" result of RegExp.exec, and the null of processGrepResult
Null == [kind |-> "null"]

\* Whether the text between the delimiters matches `(../)*basename`: every
\* segment before the last is two characters long (an unescaped "." of the
\* pattern matches any character) and the last is the escaped, hence
\* literal, basename.
MatchesBasenameRule(inc, hdr) ==
    /\ inc # <<>>
    /\ inc[Len(inc)] = Basename(hdr)
    /\ \A k \in 1..(Len(inc) - 1) : Len(inc[k]) = 2

\* regex.exec(text) for the pattern
\*   ^\s*#include\s+["<](relativePath|(../)*basename)[">]\s*$
\* built from hdr and root.  The alternatives are tried in order, so group
\* 2 takes part only when the first alternative fails, and holds the last
\* repetition of (../) -- nothing when the group repeated zero times.
IncludeRegexExec(line, hdr, root) ==
    IF \/ line.directive # "#include"
       \/ line.gap < 1
       \/ line.open \notin {"\"", "<"}
       \/ line.close \notin {"\"", ">"}
    THEN Null
    ELSE IF line.inc = Relative(root, hdr)
         THEN [kind |-> "match", g1 |-> line.inc, g2 |-> Undefined]
         ELSE IF MatchesBasenameRule(line.inc, hdr)
              THEN [kind |-> "match", g1 |-> line.inc,
                    g2 |-> IF Len(line.inc) > 1
                           THEN <<line.inc[Len(line.inc) - 1]>>
                           ELSE Undefined]
              ELSE Null

\* processGrepResult joining the include to the file name instead of to
\* its directory
processGrepResult_NoDirname(result, hdr, root) ==
    IF Len(result) < 2 THEN Null
    ELSE LET filename == result[1]
             match == IncludeRegexExec(result[2], hdr, root)
         IN  IF ~isSourceFile(filename) THEN Null
             ELSE IF match = Null THEN Null
             ELSE IF /\ match.g2 # Undefined
                     /\ NormalizeJoin(filename, match.g1) # hdr
                  THEN Null
                  ELSE [kind |-> "file", path |-> filename]

\* processGrepResult without the verification of relative includes
processGrepResult_NoVerify(result, hdr, root) ==
    IF Len(result) < 2 THEN Null
    ELSE LET filename == result[1]
             match == IncludeRegexExec(result[2], hdr, root)
         IN  IF ~isSourceFile(filename) THEN Null
             ELSE IF match = Null THEN Null
             ELSE [kind |-> "file", path |-> filename]

\* processGrepResult(result, headerFile, includeRegex)
processGrepResult(result, hdr, root) ==
    IF Len(result) < 2 THEN Null                       \* no "\0" in result
    ELSE LET filename == result[1]
             match == IncludeRegexExec(result[2], hdr, root)
         IN  IF ~isSourceFile(filename) THEN Null
             ELSE IF match = Null THEN Null
             ELSE IF /\ match.g2 # Undefined
                     /\ NormalizeJoin(Dirname(filename), match.g1) # hdr
                  THEN Null
                  ELSE [kind |-> "file", path |-> filename]


---------------------------------------------------------------------------
(* The inputs: header files, project roots and the files on disk *)

P == Seg1("p")
Inc == Seg3("i", "n", "c")
Sub == Seg3("s", "u", "b")
Src == Seg3("s", "r", "c")
D == Seg1("d")
Zz == Seg2("z", "z")
Hh == Seg3("h", ".", "h")

Headers == { <<P, Inc, Hh>>, <<P, Inc, Sub, Hh>> }

Roots == { <<P>>, <<P, Inc, Sub>> }

Line(directive, open, inc, close) ==
    [directive |-> directive, gap |-> 1, open |-> open, inc |-> inc,
     close |-> close]

File(path, line) == [path |-> path, binary |-> FALSE, line |-> line]

Quoted(inc) == Line("#include", "\"", inc, "\"")

Universe ==
    { \* /p/inc/s.c:            #include "h.h"
      File(<<P, Inc, <<"s", ".", "c">>>>, Quoted(<<Hh>>)),
      \* /p/inc/sub/t.cpp:      #include "../h.h"
      File(<<P, Inc, Sub, <<"t", ".", "c", "p", "p">>>>, Quoted(<<DotDot, Hh>>)),
      \* /p/inc/sub/d/u.c:      #include "../h.h"
      File(<<P, Inc, Sub, D, <<"u", ".", "c">>>>, Quoted(<<DotDot, Hh>>)),
      \* /p/inc/sub/w.mm:       #include "h.h"
      File(<<P, Inc, Sub, <<"w", ".", "m", "m">>>>, Quoted(<<Hh>>)),
      \* /p/inc/g.hpp:          #include "h.h"
      File(<<P, Inc, <<"g", ".", "h", "p", "p">>>>, Quoted(<<Hh>>)),
      \* /p/inc/sub/r.cc:       #include <inc/h.h>
      File(<<P, Inc, Sub, <<"r", ".", "c", "c">>>>,
           Line("#include", "<", <<Inc, Hh>>, ">")),
      \* /p/src/x.c:            #include "../inc/h.h"
      File(<<P, Src, <<"x", ".", "c">>>>, Quoted(<<DotDot, Inc, Hh>>)),
      \* /p/inc/y.m:            #import "h.h"
      File(<<P, Inc, <<"y", ".", "m">>>>, Line("#import", "\"", <<Hh>>, "\"")),
      \* /p/inc/z.cxx:          #include "zz/h.h"
      File(<<P, Inc, <<"z", ".", "c", "x", "x">>>>, Quoted(<<Zz, Hh>>)),
      \* /p/inc/b.o, a binary holding the bytes of:  #include "h.h"
      [path |-> <<P, Inc, <<"b", ".", "o">>>>, binary |-> TRUE,
       line |-> Quoted(<<Hh>>)] }

ErrorMessages == {"EIO", "EPIPE"}

Subs == 1..MaxSubs

---------------------------------------------------------------------------
(* grep -RE --null pattern dir *)

\* The line grep prints for a file with a selected line: the file name, a
\* "\0" and the line; for a binary file a notice with no "\0" in it
\* (GNU grep before 3.5 writes the notice to its standard output).
GrepLine(f) ==
    IF f.binary THEN << [notice |-> "Binary file matches", path |-> f.path] >>
    ELSE <<f.path, f.line>>

\* The output of the process spawned by spawnGrepProcess: one line for each
\* file below path.dirname(headerFile) with a line the pattern selects.
GrepOutput(hdr, root, files) ==
    { GrepLine(f) : f \in { g \in files :
          /\ IsUnder(g.path, Dirname(hdr))
          /\ IncludeRegexExec(g.line, hdr, root) # Null } }

---------------------------------------------------------------------------
(* observeProcess(spawnGrepProcess).flatMap(...).take(1) *)

\* spawnGrepProcess(): the process safeSpawn starts, with the output it is
\* going to write
spawnGrepProcess(hdr, root, files) ==
    [status |-> "running", output |-> GrepOutput(hdr, root, files)]

\* Disposal of a subscription to observeProcess: a process still running is
\* killed
Teardown(p) == IF p = "running" THEN "killed" ELSE p

\* What a process can still deliver: nothing once it exited or was killed
Remaining(p, lines) == IF p = "running" THEN lines ELSE {}

\* A call shared with the other calls: the header of the first call
HeaderOf_Shared(i) == headerFile

\* The headerFile the closures of the call of subscription i capture
HeaderOf(i) == headerOf[i]

\* The exit code of grep: 0 when a line was selected, 1 when none was, 2
\* when an error occurred (whatever it had printed by then)
ExitCodes(i) ==
    {2} \cup (IF pending[i] # {} THEN {}
              ELSE IF GrepOutput(HeaderOf(i), projectRoot, fs) = {} THEN {1}
              ELSE {0})

\* take(2)
TakeCount_Two == 1 + 1

\* The argument of .take()
TakeCount == 1

\* flatMap's function with "exit" left to the default case
FlatMap_ExitEmpty(message, hdr, root) ==
    CASE message.kind = "stdout" ->
           LET file == processGrepResult(message.data, hdr, root)
           IN  [kind |-> "next",
                values |-> IF file = Null THEN <<>> ELSE <<file>>]
      [] message.kind = "error" ->
           [kind |-> "throw", error |-> message.error]
      [] OTHER ->
           [kind |-> "next", values |-> <<>>]

\* flatMap's function throwing on a nonzero exit code
FlatMap_NonzeroExitThrows(message, hdr, root) ==
    CASE message.kind = "stdout" ->
           LET file == processGrepResult(message.data, hdr, root)
           IN  [kind |-> "next",
                values |-> IF file = Null THEN <<>> ELSE <<file>>]
      [] message.kind = "error" ->
           [kind |-> "throw", error |-> message.error]
      [] message.kind = "exit" ->
           IF message.exitCode # 0
           THEN [kind |-> "throw", error |-> "EIO"]
           ELSE [kind |-> "next", values |-> <<Null>>]
      [] OTHER ->
           [kind |-> "next", values |-> <<>>]

\* flatMap's function passing on the null of a discarded line
FlatMap_NullEmitted(message, hdr, root) ==
    CASE message.kind = "stdout" ->
           [kind |-> "next",
            values |-> <<processGrepResult(message.data, hdr, root)>>]
      [] message.kind = "error" ->
           [kind |-> "throw", error |-> message.error]
      [] message.kind = "exit" ->
           [kind |-> "next", values |-> <<Null>>]
      [] OTHER ->
           [kind |-> "next", values |-> <<>>]

\* flatMap's function answering every other message like "exit", with null
FlatMap_DefaultAsNull(message, hdr, root) ==
    CASE message.kind = "stdout" ->
           LET file == processGrepResult(message.data, hdr, root)
           IN  [kind |-> "next",
                values |-> IF file = Null THEN <<>> ELSE <<file>>]
      [] message.kind = "error" ->
           [kind |-> "throw", error |-> message.error]
      [] OTHER ->
           [kind |-> "next", values |-> <<Null>>]

\* flatMap's function answering "error" like "exit", with null
FlatMap_ErrorAsNull(message, hdr, root) ==
    CASE message.kind = "stdout" ->
           LET file == processGrepResult(message.data, hdr, root)
           IN  [kind |-> "next",
                values |-> IF file = Null THEN <<>> ELSE <<file>>]
      [] message.kind \in {"error", "exit"} ->
           [kind |-> "next", values |-> <<Null>>]
      [] OTHER ->
           [kind |-> "next", values |-> <<>>]

\* The function given to .flatMap(): the values the inner Observable emits
\* for a message, or the error thrown
FlatMap(message, hdr, root) ==
    CASE message.kind = "stdout" ->
           LET file == processGrepResult(message.data, hdr, root)
           IN  [kind |-> "next",
                values |-> IF file = Null THEN <<>> ELSE <<file>>]
      [] message.kind = "error" ->
           [kind |-> "throw", error |-> message.error]
      [] message.kind = "exit" ->
           [kind |-> "next", values |-> <<Null>>]
      [] OTHER ->
           [kind |-> "next", values |-> <<>>]

\* A message of the process of subscription i goes through flatMap and
\* take: a thrown error ends the subscription with that error; a value is
\* passed on while fewer than TakeCount were, and the TakeCount-th completes
\* the subscription; so does the end of the messages, after "exit".  In
\* each case the subscription to the process is disposed.  procNow is the
\* status of the process after the event and linesNow the output it has
\* not delivered yet.
Deliver(i, message, procNow, linesNow) ==
    LET r == FlatMap(message, HeaderOf(i), projectRoot)
    IN  IF r.kind = "throw"
        THEN /\ state' = [state EXCEPT ![i] = "error"]
             /\ error' = [error EXCEPT ![i] = r.error]
             /\ proc' = [proc EXCEPT ![i] = Teardown(procNow)]
             /\ pending' = [pending EXCEPT ![i] =
                    Remaining(Teardown(procNow), linesNow)]
             /\ UNCHANGED <<emitted, foundBy>>
        ELSE LET room == TakeCount - Len(emitted[i])
                 vals == IF Len(r.values) <= room THEN r.values
                         ELSE SubSeq(r.values, 1, room)
                 out == emitted[i] \o vals
                 done == Len(out) >= TakeCount \/ message.kind = "exit"
             IN  /\ emitted' = [emitted EXCEPT ![i] = out]
                 /\ foundBy' = [foundBy EXCEPT ![i] =
                        IF vals = <<>> THEN @ ELSE Append(@, message)]
                 /\ state' = [state EXCEPT ![i] =
                        IF done THEN "complete" ELSE @]
                 /\ proc' = [proc EXCEPT ![i] =
                        IF done THEN Teardown(procNow) ELSE procNow]
                 /\ pending' = [pending EXCEPT ![i] =
                        Remaining(IF done THEN Teardown(procNow)
                                  ELSE procNow, linesNow)]
                 /\ UNCHANGED error

\* Subscribe on a shared Observable: only the first subscription spawns
Subscribe_Shared(i) ==
    /\ state[i] = "idle"
    /\ \A j \in Subs : j < i => state[j] # "idle"
    /\ LET p == spawnGrepProcess(HeaderOf(i), projectRoot, fs)
       IN  /\ proc' = [proc EXCEPT ![i] = p.status]
           /\ pending' = [pending EXCEPT ![i] = p.output]
    /\ state' = [state EXCEPT ![i] = "active"]
    /\ spawned' = IF spawned = 0 THEN 1 ELSE spawned
    /\ UNCHANGED <<headerFile, headerOf, projectRoot, fs, emitted, foundBy, error,
                   exitCode>>

\* A subscriber subscribes to the Observable findIncludingSourceFile
\* returned: observeProcess calls spawnGrepProcess
Subscribe(i) ==
    /\ state[i] = "idle"
    /\ \A j \in Subs : j < i => state[j] # "idle"
    /\ LET p == spawnGrepProcess(HeaderOf(i), projectRoot, fs)
       IN  /\ proc' = [proc EXCEPT ![i] = p.status]
           /\ pending' = [pending EXCEPT ![i] = p.output]
    /\ state' = [state EXCEPT ![i] = "active"]
    /\ spawned' = spawned + 1
    /\ UNCHANGED <<headerFile, headerOf, projectRoot, fs, emitted, foundBy, error,
                   exitCode>>

\* Unsubscribe that does not reach the subscription to the process
Unsubscribe_Detached(i) ==
    /\ state[i] = "active"
    /\ state' = [state EXCEPT ![i] = "unsubscribed"]
    /\ UNCHANGED <<headerFile, headerOf, projectRoot, fs, proc, pending, emitted,
                   foundBy, error, exitCode, spawned>>

\* The subscriber unsubscribes before the Observable ended
Unsubscribe(i) ==
    /\ state[i] = "active"
    /\ state' = [state EXCEPT ![i] = "unsubscribed"]
    /\ proc' = [proc EXCEPT ![i] = Teardown(@)]
    /\ pending' = [pending EXCEPT ![i] = Remaining(Teardown(proc[i]), @)]
    /\ UNCHANGED <<headerFile, headerOf, projectRoot, fs, emitted, foundBy, error,
                   exitCode, spawned>>

\* grep writes the line d to its standard output
ProcStdoutLine(i, d) ==
    /\ state[i] = "active" /\ proc[i] = "running"
    /\ d \in pending[i]
    /\ Deliver(i, [kind |-> "stdout", data |-> d], "running",
               pending[i] \ {d})
    /\ UNCHANGED <<headerFile, headerOf, projectRoot, fs, exitCode, spawned>>

ProcStdout(i) == \E d \in pending[i] : ProcStdoutLine(i, d)

\* grep writes a line to its standard error
ProcStderr(i) ==
    /\ state[i] = "active" /\ proc[i] = "running"
    /\ Deliver(i, [kind |-> "stderr", data |-> "grep: warning"], "running",
               pending[i])
    /\ UNCHANGED <<headerFile, headerOf, projectRoot, fs, exitCode, spawned>>

\* the process emits an "error" event with message e
ProcErrorEvent(i, e) ==
    /\ state[i] = "active" /\ proc[i] = "running"
    /\ Deliver(i, [kind |-> "error", error |-> e], "running", pending[i])
    /\ UNCHANGED <<headerFile, headerOf, projectRoot, fs, exitCode, spawned>>

ProcError(i) == \E e \in ErrorMessages : ProcErrorEvent(i, e)

\* the process exits with the code given
ProcExitCode(i, code) ==
    /\ state[i] = "active" /\ proc[i] = "running"
    /\ code \in ExitCodes(i)
    /\ exitCode' = [exitCode EXCEPT ![i] = code]
    /\ Deliver(i, [kind |-> "exit", exitCode |-> code], "exited", pending[i])
    /\ UNCHANGED <<headerFile, headerOf, projectRoot, fs, spawned>>

ProcExit(i) == \E code \in {0, 1, 2} : ProcExitCode(i, code)

\* no message logged
NoLog == log = [i \in Subs |-> <<>>]

\* no call of limitString
LimitIdle == limitArgs = <<>> /\ limitResult = <<>>

\* a Section with no props given and never clicked
SectionIdle ==
    /\ sectionProps = [collapsable |-> <<>>, collapsedByDefault |-> <<>>,
                       collapsed |-> <<>>, onChange |-> <<>>]
    /\ isCollapsed = FALSE
    /\ onChangeCalls = <<>>
    /\ toggles = 0

\* Activations constructed
MaxActivations == 2

\* the test runner package loaded and not activated
ActivationInit ==
    /\ activation = 0
    /\ activations = 0
    /\ testRunners = [a \in 1..MaxActivations |-> {}]
    /\ controllers = [a \in 1..MaxActivations |-> 0]
    /\ updates = [a \in 1..MaxActivations |-> 0]
    /\ registrations = <<>>
    /\ lastCall = [op |-> "none"]
    /\ commands = [a \in 1..MaxActivations |-> 0]
    /\ disposals = [a \in 1..MaxActivations |-> 0]
    /\ menus = <<>>

\* new BehaviorSubject(true)
InitialVisibility == TRUE

\* a DiagnosticsPanelModel just constructed
PanelInit ==
    /\ visibility = InitialVisibility
    /\ reported = <<>>
    /\ propsEmitted = 0
    /\ latest = <<>>
    /\ delivered = <<>>

Init ==
    /\ headerFile \in Headers
    /\ headerOf = [i \in Subs |-> headerFile]
    /\ NoLog /\ LimitIdle /\ SectionIdle /\ PanelInit /\ ActivationInit
    /\ projectRoot \in Roots
    /\ fs \in {S \in SUBSET Universe : Cardinality(S) <= MaxFiles}
    /\ state = [i \in Subs |-> "idle"]
    /\ proc = [i \in Subs |-> "none"]
    /\ pending = [i \in Subs |-> {}]
    /\ emitted = [i \in Subs |-> <<>>]
    /\ foundBy = [i \in Subs |-> <<>>]
    /\ error = [i \in Subs |-> ""]
    /\ exitCode = [i \in Subs |-> -1]
    /\ spawned = 0

Next ==
    \E i \in Subs :
        \/ Subscribe(i) /\ UNCHANGED others
        \/ Unsubscribe(i) /\ UNCHANGED others
        \/ ProcStdout(i) /\ UNCHANGED others
        \/ ProcStderr(i) /\ UNCHANGED others
        \/ ProcError(i) /\ UNCHANGED others
        \/ ProcExit(i) /\ UNCHANGED others

Spec == Init /\ [][Next]_vars

\* no call of findIncludingSourceFile
SearchIdle ==
    /\ headerFile = <<P, Inc, Hh>>
    /\ headerOf = [i \in Subs |-> headerFile]
    /\ projectRoot = <<P>>
    /\ fs = {}
    /\ state = [i \in Subs |-> "idle"]
    /\ proc = [i \in Subs |-> "none"]
    /\ pending = [i \in Subs |-> {}]
    /\ emitted = [i \in Subs |-> <<>>]
    /\ foundBy = [i \in Subs |-> <<>>]
    /\ error = [i \in Subs |-> ""]
    /\ exitCode = [i \in Subs |-> -1]
    /\ spawned = 0
    /\ NoLog

---------------------------------------------------------------------------
(* Two calls of findIncludingSourceFile for different headers, one         *)
(* subscription each, with the order of the messages kept                  *)

\* the subscriptions of the two calls
Calls == {1, 2}

\* lines a process writes to its standard error
MaxStderr == 1

StdoutMessage(d) == [kind |-> "stdout", data |-> d]
StderrMessage == [kind |-> "stderr", data |-> "grep: warning"]
ErrorMessage(e) == [kind |-> "error", error |-> e]
ExitMessage(code) == [kind |-> "exit", exitCode |-> code]

StderrCount(i) ==
    Cardinality({k \in 1..Len(log[i]) : log[i][k].kind = "stderr"})

Logged(i, message) == log' = [log EXCEPT ![i] = Append(@, message)]

LogSubscribe(i) == Subscribe(i) /\ UNCHANGED log

LogUnsubscribe(i) == Unsubscribe(i) /\ UNCHANGED log

LogStdout(i) ==
    \E d \in pending[i] : ProcStdoutLine(i, d) /\ Logged(i, StdoutMessage(d))

LogStderr(i) ==
    /\ StderrCount(i) < MaxStderr
    /\ ProcStderr(i)
    /\ Logged(i, StderrMessage)

LogError(i) ==
    \E e \in ErrorMessages : ProcErrorEvent(i, e) /\ Logged(i, ErrorMessage(e))

LogExit(i) ==
    \E code \in {0, 1, 2} : ProcExitCode(i, code) /\ Logged(i, ExitMessage(code))

\* the files on disk of the two calls: s.c, sub/t.cpp, sub/d/u.c, sub/w.mm,
\* g.hpp and the binary b.o
ConcurrentUniverse ==
    { f \in Universe :
        f.path[Len(f.path)] \in
            { <<"s", ".", "c">>, <<"t", ".", "c", "p", "p">>,
              <<"u", ".", "c">>, <<"w", ".", "m", "m">>,
              <<"g", ".", "h", "p", "p">>, <<"b", ".", "o">> } }

ConcurrentInit ==
    /\ headerOf \in [Subs -> Headers]
    /\ headerOf[1] # headerOf[2]
    /\ \A i \in Subs \ Calls : headerOf[i] = headerOf[1]
    /\ headerFile = headerOf[1]
    /\ NoLog /\ LimitIdle /\ SectionIdle /\ PanelInit /\ ActivationInit
    /\ projectRoot = <<P>>
    /\ fs \in {S \in SUBSET ConcurrentUniverse : Cardinality(S) <= MaxFiles}
    /\ state = [i \in Subs |-> "idle"]
    /\ proc = [i \in Subs |-> "none"]
    /\ pending = [i \in Subs |-> {}]
    /\ emitted = [i \in Subs |-> <<>>]
    /\ foundBy = [i \in Subs |-> <<>>]
    /\ error = [i \in Subs |-> ""]
    /\ exitCode = [i \in Subs |-> -1]
    /\ spawned = 0

\* the variables of the other components but the log
aside == <<limitVars, sectionVars, panelVars, activationVars>>

ConcurrentNext ==
    \E i \in Calls :
        \/ LogSubscribe(i) /\ UNCHANGED aside
        \/ LogUnsubscribe(i) /\ UNCHANGED aside
        \/ LogStdout(i) /\ UNCHANGED aside
        \/ LogStderr(i) /\ UNCHANGED aside
        \/ LogError(i) /\ UNCHANGED aside
        \/ LogExit(i) /\ UNCHANGED aside

Concurrent == ConcurrentInit /\ [][ConcurrentNext]_vars

\* observeProcess(...).flatMap(...).take(1) applied to the messages of one
\* process alone: the subscriber's state after them, from acc
RECURSIVE RunAlone(_, _, _, _)
RunAlone(hdr, root, messages, acc) ==
    IF messages = <<>> \/ acc.state # "active" THEN acc
    ELSE LET message == Head(messages)
             r == FlatMap(message, hdr, root)
         IN  IF r.kind = "throw"
             THEN [state |-> "error", emitted |-> acc.emitted,
                   error |-> r.error]
             ELSE LET room == TakeCount - Len(acc.emitted)
                      vals == IF Len(r.values) <= room THEN r.values
                              ELSE SubSeq(r.values, 1, room)
                      out == acc.emitted \o vals
                      done == Len(out) >= TakeCount \/ message.kind = "exit"
                  IN  RunAlone(hdr, root, Tail(messages),
                               [state |-> IF done THEN "complete" ELSE "active",
                                emitted |-> out, error |-> ""])

\* the subscriber of a call that ran alone, after the messages logged for i
Alone(i) ==
    RunAlone(headerOf[i], projectRoot, log[i],
             [state |-> "active", emitted |-> <<>>, error |-> ""])

---------------------------------------------------------------------------
(* limitString of the test runner package (part_000:26-38).  A string is   *)
(* the sequence of its characters; a number is a fraction [num, den], for  *)
(* length / 2 is not an integer when length is odd.                        *)

\* longest string given to limitString
MaxStrLen == 22

\* largest length given to limitString
MaxLength == 7

\* the character U+2026
Ellipsis == "u2026"

Alphabet ==
    << "a", "b", "c", "d", "e", "f", "g", "h", "i", "j", "k", "l", "m",
       "n", "o", "p", "q", "r", "s", "t", "u", "v", "w", "x", "y", "z",
       "A", "B", "C", "D" >>

\* the strings given: the first n characters of the alphabet
Strings == { SubSeq(Alphabet, 1, n) : n \in 0..MaxStrLen }

Number(n) == [num |-> n, den |-> 1]

\* a / b for an integer b > 0
Divide(a, b) == [num |-> a.num, den |-> a.den * b]

\* a - b
Minus(a, b) == [num |-> a.num * b.den - b.num * a.den, den |-> a.den * b.den]

\* ToInteger rounding halves up
ToInteger_RoundUp(x) ==
    IF x.num >= 0 THEN (x.num + x.den - 1) \div x.den
    ELSE -((-x.num) \div x.den)

\* ToInteger of the language: the fraction is dropped, towards zero
ToInteger(x) ==
    IF x.num >= 0 THEN x.num \div x.den ELSE -((-x.num) \div x.den)

Clamp(n, lo, hi) == IF n < lo THEN lo ELSE IF n > hi THEN hi ELSE n

\* String.prototype.substring(start, end): both arguments go through
\* ToInteger and are clamped to the string; the smaller is the start
Substring(str, start, end) ==
    LET a == Clamp(ToInteger(start), 0, Len(str))
        b == Clamp(ToInteger(end), 0, Len(str))
        from == IF a <= b THEN a ELSE b
        to == IF a <= b THEN b ELSE a
    IN  SubSeq(str, from + 1, to)

\* length = 10
DEFAULT_LENGTH_Ten == 5 + 5

\* the default of the parameter length (part_000:33)
DEFAULT_LENGTH == 20

\* limitString(str, length = 20)
limitString(args) ==
    LET str == args[1]
        length == IF Len(args) >= 2 THEN args[2] ELSE DEFAULT_LENGTH
        strLength == Len(str)
    IN  IF strLength > length
        THEN Substring(str, Number(0), Divide(Number(length), 2))
             \o <<Ellipsis>>
             \o Substring(str,
                          Minus(Number(Len(str)), Divide(Number(length), 2)),
                          Number(Len(str)))
        ELSE str

LimitInit ==
    /\ limitArgs \in { <<str>> : str \in Strings }
                     \cup { <<str, length>> :
                              str \in Strings, length \in 0..MaxLength }
    /\ limitResult = <<>>

\* the call returns
LimitReturn ==
    /\ limitResult = <<>>
    /\ limitResult' = <<limitString(limitArgs)>>
    /\ UNCHANGED limitArgs

LimitNext ==
    /\ LimitReturn
    /\ UNCHANGED <<searchVars, log, sectionVars, panelVars, activationVars>>

\* a call of limitString, the other components at rest
LimitSpecInit ==
    LimitInit /\ SearchIdle /\ SectionIdle /\ PanelInit /\ ActivationInit

Limit == LimitSpecInit /\ [][LimitNext]_vars

---------------------------------------------------------------------------
(* Section of nuclide-ui (Section.js).  An optional prop is the sequence   *)
(* of its values: empty when the prop is absent (undefined or null), else  *)
(* the one value given.                                                    *)

\* calls of _toggleCollapsed
MaxToggles == 3

\* what the onChange prop can hold: nothing, a function, something else
OnChangeProps == { <<>>, <<"function">>, <<"string">> }

OptionalBoolean == { <<>>, <<TRUE>>, <<FALSE>> }

\* the props of a Section that bear on collapsing (Section.js:20-27)
Props ==
    [collapsable : OptionalBoolean, collapsedByDefault : OptionalBoolean,
     collapsed : OptionalBoolean, onChange : OnChangeProps]

\* constructor: this.state.isCollapsed
initialIsCollapsed(props) ==
    /\ props.collapsable # Undefined
    /\ props.collapsable[1]
    /\ props.collapsedByDefault # Undefined
    /\ props.collapsedByDefault[1]

\* render(): whether the headline is clickable and whether the children
\* are hidden
render(props, stateIsCollapsed) ==
    LET collapsable == IF props.collapsable # Undefined
                       THEN props.collapsable[1] ELSE FALSE
        collapsed == IF props.collapsed = Undefined
                     THEN stateIsCollapsed ELSE props.collapsed[1]
    IN  [collapsable |-> collapsable, collapsed |-> collapsed,
         onClick |-> IF collapsable THEN <<"_toggleCollapsed">> ELSE <<>>,
         hidden |-> collapsed]

SectionInit ==
    /\ sectionProps \in Props
    /\ isCollapsed = initialIsCollapsed(sectionProps)
    /\ onChangeCalls = <<>>
    /\ toggles = 0

\* _toggleCollapsed setting the state in both modes
ToggleCollapsed_AlwaysSetState ==
    /\ toggles < MaxToggles
    /\ render(sectionProps, isCollapsed).onClick # <<>>
    /\ toggles' = toggles + 1
    /\ isCollapsed' = ~isCollapsed
    /\ IF sectionProps.collapsed = Undefined
       THEN UNCHANGED onChangeCalls
       ELSE IF sectionProps.onChange = <<"function">>
            THEN onChangeCalls' =
                    Append(onChangeCalls, ~sectionProps.collapsed[1])
            ELSE UNCHANGED onChangeCalls
    /\ UNCHANGED sectionProps

\* a click on the headline of a collapsable Section: _toggleCollapsed()
ToggleCollapsed ==
    /\ toggles < MaxToggles
    /\ render(sectionProps, isCollapsed).onClick # <<>>
    /\ toggles' = toggles + 1
    /\ IF sectionProps.collapsed = Undefined
       THEN /\ isCollapsed' = ~isCollapsed
            /\ UNCHANGED onChangeCalls
       ELSE /\ IF sectionProps.onChange = <<"function">>
               THEN onChangeCalls' =
                       Append(onChangeCalls, ~sectionProps.collapsed[1])
               ELSE UNCHANGED onChangeCalls
            /\ UNCHANGED isCollapsed
    /\ UNCHANGED sectionProps

\* the parent renders the Section again, with the props given
ReceiveProps(props) ==
    /\ props # sectionProps
    /\ sectionProps' = props
    /\ UNCHANGED <<isCollapsed, onChangeCalls, toggles>>

\* the variables of the components other than Section
notSection == <<searchVars, log, limitVars, panelVars, activationVars>>

SectionNext ==
    \/ ToggleCollapsed /\ UNCHANGED notSection
    \/ \E props \in Props : ReceiveProps(props) /\ UNCHANGED notSection

\* a Section mounted, the other components at rest
SectionSpecInit ==
    SectionInit /\ SearchIdle /\ LimitIdle /\ PanelInit /\ ActivationInit

SectionSpec == SectionSpecInit /\ [][SectionNext]_vars

---------------------------------------------------------------------------
(* DiagnosticsPanelModel (DiagnosticsPanelModel.js): the props stream      *)
(* behind toggle(), with one subscriber, the panel's element.  toggle is   *)
(* commons-node/observable's: a gate that forwards the values of its       *)
(* source while the last value of its toggler is true and, when that       *)
(* turns true, the value the source replays.                               *)

\* values the props stream emits
MaxProps == 2

\* calls of didChangeVisibility
MaxVisibilityCalls == 4

\* _visibility.distinctUntilChanged(): the value is passed on when it is
\* not the one before
DistinctUntilChanged(before, value) ==
    IF value = before THEN <<>> ELSE <<value>>

\* toggle(source, toggler), when the toggler emits: the values delivered
Toggle(toggler, replayed) ==
    IF toggler = <<TRUE>> THEN replayed ELSE <<>>

\* toggle(source, toggler), when the source emits value: the values
\* delivered while the gate has the state given
Forward(gate, value) == IF gate THEN <<value>> ELSE <<>>

\* didChangeVisibility ignoring its argument: _visibility.next(true)
DidChangeVisibility_AlwaysTrue(visible) ==
    /\ Len(reported) < MaxVisibilityCalls
    /\ reported' = Append(reported, visible)
    /\ visibility' = TRUE
    /\ delivered' = delivered
                    \o Toggle(DistinctUntilChanged(visibility, TRUE), latest)
    /\ UNCHANGED <<propsEmitted, latest>>

\* didChangeVisibility(visible): this._visibility.next(visible)
DidChangeVisibility(visible) ==
    /\ Len(reported) < MaxVisibilityCalls
    /\ reported' = Append(reported, visible)
    /\ visibility' = visible
    /\ delivered' = delivered
                    \o Toggle(DistinctUntilChanged(visibility, visible), latest)
    /\ UNCHANGED <<propsEmitted, latest>>

\* getPropsStream(...) emits its next value: publishReplay(1) keeps it
PropsNext ==
    /\ propsEmitted < MaxProps
    /\ propsEmitted' = propsEmitted + 1
    /\ latest' = <<propsEmitted + 1>>
    /\ delivered' = delivered \o Forward(visibility, propsEmitted + 1)
    /\ UNCHANGED <<visibility, reported>>

\* the variables of the components other than DiagnosticsPanelModel
notPanel == <<searchVars, log, limitVars, sectionVars, activationVars>>

PanelNext ==
    \/ \E visible \in BOOLEAN :
          DidChangeVisibility(visible) /\ UNCHANGED notPanel
    \/ PropsNext /\ UNCHANGED notPanel

\* a DiagnosticsPanelModel constructed, the other components at rest
PanelSpecInit ==
    PanelInit /\ SearchIdle /\ LimitIdle /\ SectionIdle /\ ActivationInit

Panel == PanelSpecInit /\ [][PanelNext]_vars

---------------------------------------------------------------------------
(* The test runner package (part_000): the module's activation, its        *)
(* Activations, their test runners and controllers.  A Disposable of atom  *)
(* runs its action at its first dispose() only.                            *)

\* Disposables returned by addTestRunner
MaxRegistrations == 2

\* the test runners that services provide
TestRunners == {"runner1", "runner2"}

Activations == 1..MaxActivations

\* the selected node of the file tree: none, a file or a directory
Nodes == { <<>>, <<[isContainer |-> FALSE]>>, <<[isContainer |-> TRUE]>> }

\* an element's dataset: name and path, each given or not
Elements == [name : {<<>>, <<"name">>}, path : {<<>>, <<"path">>}]

\* a mouse event: its target and what target.querySelector('.name') finds
Events ==
    [target : Elements,
     descendant : {<<>>} \cup { <<element>> : element \in Elements }]

\* shouldDisplayItem of the item for files or for directories
shouldDisplayItem(isForFile, node) ==
    IF isForFile THEN node # <<>> /\ ~node[1].isContainer
    ELSE node # <<>> /\ node[1].isContainer

\* shouldDisplay not looking at the test runners
shouldDisplay_AnyRunners(a, isForFile, node, event) ==
    IF ~shouldDisplayItem(isForFile, node) THEN FALSE
    ELSE LET target == IF event.target.name = <<>>
                       THEN event.descendant ELSE <<event.target>>
         IN  /\ target # <<>>
             /\ target[1].name # <<>>
             /\ target[1].path # <<>>

\* shouldDisplay(event) of the item Activation a created for files or for
\* directories, with node the single selected node
shouldDisplay(a, isForFile, node, event) ==
    IF Cardinality(testRunners[a]) = 0 THEN FALSE
    ELSE IF ~shouldDisplayItem(isForFile, node) THEN FALSE
    ELSE LET target == IF event.target.name = <<>>
                       THEN event.descendant ELSE <<event.target>>
         IN  /\ target # <<>>
             /\ target[1].name # <<>>
             /\ target[1].path # <<>>

\* separatorShouldDisplay(event)
separatorShouldDisplay(a, node, event) ==
    shouldDisplay(a, TRUE, node, event) \/ shouldDisplay(a, FALSE, node, event)

\* the commands the constructor of Activation registers (part_000:49-94)
ConstructorCommands == 4

\* new Activation(): the next Activation, with its commands registered
Construct ==
    /\ activations < MaxActivations
    /\ activations' = activations + 1
    /\ activation' = activations + 1
    /\ commands' = [commands EXCEPT ![activations + 1] = ConstructorCommands]

\* activate() constructing an Activation whether or not there is one
Activate_NoTest ==
    /\ Construct
    /\ lastCall' = [op |-> "activate"]
    /\ UNCHANGED <<testRunners, controllers, updates, registrations,
                   disposals, menus>>

\* activate()
Activate ==
    /\ IF activation = 0
       THEN Construct
       ELSE UNCHANGED <<activation, activations, commands>>
    /\ lastCall' = [op |-> "activate"]
    /\ UNCHANGED <<testRunners, controllers, updates, registrations,
                   disposals, menus>>

\* The items of the n-th call of addItemsToFileTreeContextMenu after
\* this._disposables.dispose() of Activation a: menuItemSubscriptions is
\* disposed with the composite it is a member of
Disposed(a, menu) ==
    IF menu.activation = a /\ menu.subscribed
    THEN [menu EXCEPT !.subscribed = FALSE, !.items = {}]
    ELSE menu

\* Activation a: dispose()
dispose(a) ==
    /\ disposals' = [disposals EXCEPT ![a] = @ + 1]
    /\ commands' = [commands EXCEPT ![a] = 0]
    /\ menus' = [n \in 1..Len(menus) |-> Disposed(a, menus[n])]

\* deactivate()
Deactivate ==
    /\ IF activation # 0
       THEN /\ dispose(activation)
            /\ activation' = 0
       ELSE UNCHANGED <<activation, commands, disposals, menus>>
    /\ lastCall' = [op |-> "deactivate"]
    /\ UNCHANGED <<activations, testRunners, controllers, updates,
                   registrations>>

\* what addTestRunner returned: nothing, or the n-th Disposable
Added(testRunner, returned) ==
    [op |-> "addTestRunner", testRunner |-> testRunner, returned |-> returned]

\* addTestRunner calling getController() whether or not a controller exists
addTestRunner_ForcesController(a, testRunner) ==
    IF testRunner \in testRunners[a]
    THEN /\ lastCall' = Added(testRunner, <<>>)
         /\ UNCHANGED <<testRunners, controllers, updates, registrations>>
    ELSE /\ Len(registrations) < MaxRegistrations
         /\ testRunners' = [testRunners EXCEPT ![a] = @ \cup {testRunner}]
         /\ controllers' = [controllers EXCEPT ![a] = IF @ = 0 THEN 1 ELSE @]
         /\ updates' = [updates EXCEPT ![a] = @ + 1]
         /\ registrations' = Append(registrations,
                [activation |-> a, testRunner |-> testRunner,
                 disposed |-> FALSE])
         /\ lastCall' = Added(testRunner, <<Len(registrations) + 1>>)

\* addTestRunner without the test for a runner already added
addTestRunner_NoHas(a, testRunner) ==
    /\ Len(registrations) < MaxRegistrations
    /\ testRunners' = [testRunners EXCEPT ![a] = @ \cup {testRunner}]
    /\ updates' = [updates EXCEPT ![a] =
                      IF controllers[a] # 0 THEN @ + 1 ELSE @]
    /\ registrations' = Append(registrations,
           [activation |-> a, testRunner |-> testRunner, disposed |-> FALSE])
    /\ lastCall' = Added(testRunner, <<Len(registrations) + 1>>)
    /\ UNCHANGED controllers

\* Activation a: addTestRunner(testRunner)
addTestRunner(a, testRunner) ==
    IF testRunner \in testRunners[a]
    THEN /\ lastCall' = Added(testRunner, <<>>)
         /\ UNCHANGED <<testRunners, controllers, updates, registrations>>
    ELSE /\ Len(registrations) < MaxRegistrations
         /\ testRunners' = [testRunners EXCEPT ![a] = @ \cup {testRunner}]
         /\ updates' = [updates EXCEPT ![a] =
                           IF controllers[a] # 0 THEN @ + 1 ELSE @]
         /\ registrations' = Append(registrations,
                [activation |-> a, testRunner |-> testRunner,
                 disposed |-> FALSE])
         /\ lastCall' = Added(testRunner, <<Len(registrations) + 1>>)
         /\ UNCHANGED controllers

\* consumeTestRunner(testRunner)
ConsumeTestRunner(testRunner) ==
    /\ IF activation # 0
       THEN addTestRunner(activation, testRunner)
       ELSE /\ lastCall' = [op |-> "consumeTestRunner",
                            testRunner |-> testRunner, returned |-> <<>>]
            /\ UNCHANGED <<testRunners, controllers, updates, registrations>>
    /\ UNCHANGED <<activation, activations, commands, disposals, menus>>

\* dispose() of the n-th Disposable addTestRunner returned
DisposeRegistration(n) ==
    /\ n \in 1..Len(registrations)
    /\ lastCall' = [op |-> "dispose", registration |-> n]
    /\ IF registrations[n].disposed
       THEN UNCHANGED <<testRunners, updates, registrations>>
       ELSE LET a == registrations[n].activation
            IN  /\ registrations' = [registrations EXCEPT ![n].disposed = TRUE]
                /\ testRunners' = [testRunners EXCEPT ![a] =
                       @ \ {registrations[n].testRunner}]
                /\ updates' = [updates EXCEPT ![a] =
                       IF controllers[a] # 0 THEN @ + 1 ELSE @]
    /\ UNCHANGED <<activation, activations, controllers, commands,
                   disposals, menus>>

\* Activation a: getController()
getController(a) ==
    controllers' = [controllers EXCEPT ![a] = IF @ = 0 THEN 1 ELSE @]

\* what calls getController of the live Activation: a command of the
\* package, the opener of the workspace view
Routes == {"command", "opener"}

InvokeGetController(route) ==
    /\ activation # 0
    /\ getController(activation)
    /\ lastCall' = [op |-> route,
                    returned |-> <<activation, controllers'[activation]>>]
    /\ UNCHANGED <<activation, activations, testRunners, updates,
                   registrations, commands, disposals, menus>>

\* deserializeTestRunnerPanelState()
DeserializeTestRunnerPanelState ==
    /\ IF activation = 0
       THEN Construct
       ELSE UNCHANGED <<activation, activations, commands>>
    /\ getController(activation')
    /\ lastCall' = [op |-> "deserializeTestRunnerPanelState",
                    returned |-> <<activation', controllers'[activation']>>]
    /\ UNCHANGED <<testRunners, updates, registrations, disposals, menus>>

\* calls of addItemsToFileTreeContextMenu
MaxMenus == 2

\* part_000:24
FILE_TREE_CONTEXT_MENU_PRIORITY == 200

\* the items one call adds to the test section of the context menu, with
\* their priorities
MenuItems ==
    { [item |-> "fileItem", priority |-> FILE_TREE_CONTEXT_MENU_PRIORITY],
      [item |-> "directoryItem",
       priority |-> FILE_TREE_CONTEXT_MENU_PRIORITY + 1],
      [item |-> "separator",
       priority |-> FILE_TREE_CONTEXT_MENU_PRIORITY + 2] }

\* addItemsToFileTreeContextMenu(contextMenu): the live Activation adds the
\* three items, keeps menuItemSubscriptions in its _disposables and
\* returns a Disposable
AddItemsToFileTreeContextMenu ==
    /\ activation # 0
    /\ Len(menus) < MaxMenus
    /\ menus' = Append(menus,
           [activation |-> activation, subscribed |-> TRUE,
            items |-> MenuItems, disposed |-> FALSE])
    /\ lastCall' = [op |-> "addItemsToFileTreeContextMenu",
                    returned |-> <<Len(menus) + 1>>]
    /\ UNCHANGED <<activation, activations, testRunners, controllers,
                   updates, registrations, commands, disposals>>

\* dispose() of the Disposable the n-th call of
\* addItemsToFileTreeContextMenu returned:
\* this._disposables.remove(menuItemSubscriptions)
DisposeMenuItems(n) ==
    /\ n \in 1..Len(menus)
    /\ lastCall' = [op |-> "disposeMenuItems", menu |-> n]
    /\ menus' = IF menus[n].disposed THEN menus
                ELSE [menus EXCEPT ![n].disposed = TRUE,
                                   ![n].subscribed = FALSE]
    /\ UNCHANGED <<activation, activations, testRunners, controllers,
                   updates, registrations, commands, disposals>>

\* the variables of the components other than the test runner package
notActivation == <<searchVars, log, limitVars, sectionVars, panelVars>>

ActivationNext ==
    \/ Activate /\ UNCHANGED notActivation
    \/ Deactivate /\ UNCHANGED notActivation
    \/ \E testRunner \in TestRunners :
          ConsumeTestRunner(testRunner) /\ UNCHANGED notActivation
    \/ \E n \in 1..MaxRegistrations :
          DisposeRegistration(n) /\ UNCHANGED notActivation
    \/ \E route \in Routes :
          InvokeGetController(route) /\ UNCHANGED notActivation
    \/ DeserializeTestRunnerPanelState /\ UNCHANGED notActivation

\* the test runner package loaded, the other components at rest
TestRunnerInit ==
    ActivationInit /\ SearchIdle /\ LimitIdle /\ SectionIdle /\ PanelInit

TestRunner == TestRunnerInit /\ [][ActivationNext]_vars

\* the life of the package: activation, deactivation, deserialization, the
\* controller and the items of the file tree's context menu
LifecycleNext ==
    \/ Activate /\ UNCHANGED notActivation
    \/ Deactivate /\ UNCHANGED notActivation
    \/ DeserializeTestRunnerPanelState /\ UNCHANGED notActivation
    \/ \E route \in Routes :
          InvokeGetController(route) /\ UNCHANGED notActivation
    \/ AddItemsToFileTreeContextMenu /\ UNCHANGED notActivation
    \/ \E n \in 1..MaxMenus :
          DisposeMenuItems(n) /\ UNCHANGED notActivation

Lifecycle == TestRunnerInit /\ [][LifecycleNext]_vars

---------------------------------------------------------------------------
(* Vocabulary of the properties *)

\* SearchResult: the file name the Observable emits, or its null
Found(path) == [kind |-> "file", path |-> path]
NotFound == Null

\* The include text names the header by its basename after n >= least
\* literal "../" segments
NamesBasename(inc, hdr, least) ==
    /\ Len(inc) >= least + 1
    /\ inc[Len(inc)] = Basename(hdr)
    /\ \A k \in 1..(Len(inc) - 1) : inc[k] = DotDot

\* The include text of file f, resolved against the directory of f
Resolved(f) == NormalizeJoin(Dirname(f.path), f.line.inc)

\* f is a source file holding the line  #include "H"  with H resolving,
\* from the directory of f, to the header searched for
IncludesHeader(f) ==
    /\ isSourceFile(f.path)
    /\ f.line.directive = "#include" /\ f.line.gap = 1
    /\ f.line.open = "\"" /\ f.line.close = "\""
    /\ Resolved(f) = headerFile

\* grep selects a line of f in the search for the header
Selected(f) ==
    /\ IsUnder(f.path, Dirname(headerFile))
    /\ IncludeRegexExec(f.line, headerFile, projectRoot) # Null

\* The search of subscription i ended with a result and its process did
\* not fail (exit code 2)
RanToResult(i) == state[i] = "complete" /\ exitCode[i] # 2

\* The k-th value emitted to i is a file name, found on an output line
IsFound(i, k) ==
    /\ k \in 1..Len(emitted[i])
    /\ emitted[i][k].kind = "file"
    /\ k <= Len(foundBy[i]) /\ foundBy[i][k].kind = "stdout"
    /\ Len(foundBy[i][k].data) = 2

---------------------------------------------------------------------------
(* C1 *)

\* C1, as stated: whenever a source file S holds  #include "H"  and H
\* resolves from the directory of S to the header, and S is the only such
\* file, a search that runs to its result without process failure emits
\* Found(S).
C1_RoundTripAnyInclude ==
    \A i \in Subs : \A f \in fs :
        ( /\ RanToResult(i)
          /\ IncludesHeader(f)
          /\ \A g \in fs : IncludesHeader(g) => g = f )
        => emitted[i] = <<Found(f.path)>>

\* C1, amended: the round trip holds for a text source file S whose include
\* names the header by its basename after zero or more "../" segments,
\* when S is the only file below the header's directory with a line the
\* include pattern selects.
C1_RoundTrip ==
    \A i \in Subs : \A f \in fs :
        ( /\ RanToResult(i)
          /\ IncludesHeader(f)
          /\ ~f.binary
          /\ NamesBasename(f.line.inc, headerFile, 0)
          /\ \A g \in fs : Selected(g) => g = f )
        => emitted[i] = <<Found(f.path)>>

\* a search found the only including file through a verified "../" include
C1_Witness ==
    \E i \in Subs : \E f \in fs :
        /\ RanToResult(i)
        /\ IncludesHeader(f) /\ ~f.binary
        /\ NamesBasename(f.line.inc, headerFile, 1)
        /\ f.line.inc # Relative(projectRoot, headerFile)
        /\ \A g \in fs : Selected(g) => g = f
        /\ emitted[i] = <<Found(f.path)>>

---------------------------------------------------------------------------
(* C2 *)

\* C2: every file name emitted names a source file, and when the include
\* line it was found on matched with capture group 2 set, the captured
\* include resolved against the file's directory is the header file.
C2_FoundIsVerifiedSource ==
    \A i \in Subs : \A k \in 1..Len(emitted[i]) :
        IsFound(i, k) =>
            LET path == emitted[i][k].path
                m == IncludeRegexExec(foundBy[i][k].data[2], headerFile,
                                      projectRoot)
            IN  /\ Extname(path) \in SOURCE_EXTENSIONS
                /\ path = foundBy[i][k].data[1]
                /\ m # Null
                /\ m.g2 # Undefined =>
                      NormalizeJoin(Dirname(path), m.g1) = headerFile

\* a file was emitted whose include matched in the relative form
C2_Witness ==
    \E i \in Subs :
        /\ IsFound(i, 1)
        /\ IncludeRegexExec(foundBy[i][1].data[2], headerFile,
                            projectRoot).g2 # Undefined

---------------------------------------------------------------------------
(* C3 *)

\* C3: a file is never emitted when its include names the header by the
\* basename after zero or more "../" segments, not by the path relative to
\* the project root, and resolves to another file than the header.
C3_FalsePositiveRejected ==
    \A i \in Subs : \A k \in 1..Len(emitted[i]) :
        IsFound(i, k) =>
            LET inc == foundBy[i][k].data[2].inc
            IN  ( /\ NamesBasename(inc, headerFile, 0)
                  /\ inc # Relative(projectRoot, headerFile) )
                => NormalizeJoin(Dirname(emitted[i][k].path), inc)
                      = headerFile

---------------------------------------------------------------------------
(* C4 *)

\* C4: a subscriber never gets a second value; a search has completed
\* exactly when it has emitted its one result (so the completion comes with
\* the emission), and a search that failed, was cancelled or is still
\* running has emitted nothing.
C4_ExactlyOneResult ==
    \A i \in Subs :
        /\ Len(emitted[i]) <= 1
        /\ state[i] = "complete" <=> Len(emitted[i]) = 1
        /\ state[i] \in {"idle", "active", "error", "unsubscribed"}
              => emitted[i] = <<>>

\* a file was emitted and the search completed while grep was still running
C4_Witness ==
    \E i \in Subs :
        /\ state[i] = "complete" /\ proc[i] = "killed"
        /\ Len(emitted[i]) = 1 /\ emitted[i][1].kind = "file"

---------------------------------------------------------------------------
(* C5 *)

\* No line grep prints for the files on disk survives processGrepResult
NoSurvivingLine ==
    \A f \in fs :
        Selected(f) =>
            processGrepResult(GrepLine(f), headerFile, projectRoot) = Null

\* C5: when no output line survives the filter, a search that ends with a
\* result ends after the exit of the process with exactly one NotFound;
\* and whenever the exit of the process is delivered, the search completes
\* with exactly one NotFound.
C5_NegativeCase ==
    \A i \in Subs :
        /\ (NoSurvivingLine /\ state[i] = "complete")
              => (emitted[i] = <<NotFound>> /\ proc[i] = "exited")
        /\ proc[i] = "exited"
              => (emitted[i] = <<NotFound>> /\ state[i] = "complete")

\* grep printed lines, all were discarded, and the exit gave NotFound
C5_Witness ==
    \E i \in Subs :
        /\ \E f \in fs : Selected(f)
        /\ NoSurvivingLine
        /\ exitCode[i] = 0
        /\ state[i] = "complete" /\ emitted[i] = <<NotFound>>

---------------------------------------------------------------------------
(* C6 *)

\* C6, as stated: a nonzero exit code is a failure; the search ends with
\* an error and emits no result, in particular no NotFound.
C6_NonzeroExitFails ==
    \A i \in Subs :
        exitCode[i] \notin {-1, 0} =>
            (state[i] = "error" /\ emitted[i] = <<>>)

\* C6, amended: an exit with a nonzero code before any surviving match is
\* not a failure; the search emits exactly one NotFound and completes
\* without error, as for the exit code 0.
C6_NonzeroExitIsNotFound ==
    \A i \in Subs :
        exitCode[i] \notin {-1, 0} =>
            /\ state[i] = "complete"
            /\ emitted[i] = <<NotFound>>
            /\ error[i] = ""

\* grep exited with 1 (nothing selected) and the search gave NotFound
C6_Witness ==
    \E i \in Subs :
        /\ exitCode[i] = 1 /\ proc[i] = "exited"
        /\ state[i] = "complete" /\ emitted[i] = <<NotFound>>

---------------------------------------------------------------------------
(* C7 *)

\* C7: an "error" event delivered to a running search ends it with an
\* error carrying the message of the event, with nothing emitted; and a
\* search that ended with an error has emitted nothing, then or later.
C7_ErrorEventIsFatal ==
    /\ [](\A i \in Subs :
            state[i] = "error" =>
                (emitted[i] = <<>> /\ error[i] \in ErrorMessages))
    /\ [][\A i \in Subs : \A e \in ErrorMessages :
            ProcErrorEvent(i, e) =>
                /\ state'[i] = "error"
                /\ error'[i] = e
                /\ emitted'[i] = <<>>
                /\ emitted[i] = <<>>]_vars

\* an error event ended a search for which grep had selected lines
C7_Witness ==
    \E i \in Subs :
        /\ state[i] = "error" /\ error[i] = "EPIPE"
        /\ emitted[i] = <<>>
        /\ \E f \in fs : Selected(f)

---------------------------------------------------------------------------
(* C8 *)

\* C8: once the subscriber has unsubscribed, the process of the search has
\* been killed, no process of it runs, and nothing was or is emitted to
\* the subscriber.
C8_Cancellation ==
    \A i \in Subs :
        state[i] = "unsubscribed" =>
            /\ proc[i] = "killed"
            /\ pending[i] = {}
            /\ emitted[i] = <<>>

\* a search with output to deliver was cancelled
C8_Witness ==
    \E i \in Subs :
        /\ state[i] = "unsubscribed" /\ proc[i] = "killed"
        /\ emitted[i] = <<>>
        /\ \E f \in fs : Selected(f)

---------------------------------------------------------------------------
(* C9 *)

\* C9: from the emission of the first result on, and in every state after
\* the search ended (Found, NotFound or error), its process does not run;
\* a process that had not exited by then has been killed.
C9_NoProcessAfterResult ==
    \A i \in Subs :
        (emitted[i] # <<>> \/ state[i] \in {"complete", "error"}) =>
            /\ proc[i] \in {"killed", "exited"}
            /\ (\E k \in 1..Len(emitted[i]) : emitted[i][k].kind = "file")
                  => proc[i] = "killed"
            /\ state[i] = "error" => proc[i] = "killed"

\* two files survive the filter; the first was emitted and grep killed
C9_Witness ==
    \E i \in Subs :
        /\ state[i] = "complete" /\ proc[i] = "killed"
        /\ IsFound(i, 1)
        /\ \E f \in fs :
              /\ f.path # emitted[i][1].path
              /\ Selected(f)
              /\ processGrepResult(GrepLine(f), headerFile, projectRoot)
                    # Null

---------------------------------------------------------------------------
(* C10 *)

\* The subscriptions made so far
Subscribed == {i \in Subs : state[i] # "idle"}

\* C10, as stated: whatever the number of subscriptions, one call has
\* spawned exactly one grep process.
C10_OneProcessPerCall == spawned = 1

\* C10, amended: a process is spawned for each subscription; the processes
\* spawned are as many as the subscriptions made, none before the first.
C10_OneProcessPerSubscription ==
    /\ spawned = Cardinality(Subscribed)
    /\ \A i \in Subs : proc[i] = "none" <=> state[i] = "idle"

\* two subscriptions, two processes
C10_Witness == spawned = 2 /\ Cardinality(Subscribed) = 2

---------------------------------------------------------------------------
(* C11 *)

\* the subscriber of call i as the subscriber of a call run alone
AsAlone(i) ==
    LET a == Alone(i)
    IN  /\ emitted[i] = a.emitted
        /\ error[i] = a.error
        /\ state[i] \in {a.state, "unsubscribed"}

\* a step in which call i ends: it completes, fails or is cancelled
Ends(i) == state[i] = "active" /\ state'[i] # "active"

\* a step leaves everything of call j as it was
Untouched(j) ==
    /\ state'[j] = state[j] /\ proc'[j] = proc[j]
    /\ pending'[j] = pending[j] /\ emitted'[j] = emitted[j]
    /\ foundBy'[j] = foundBy[j] /\ error'[j] = error[j]
    /\ exitCode'[j] = exitCode[j] /\ log'[j] = log[j]

\* C11: of two calls for different headers whose processes' messages are
\* delivered in any interleaving, each has the result it would have had
\* alone on the messages of its own process; and the step in which one of
\* them completes, fails or is cancelled neither ends the process of the
\* other nor changes anything of it.
C11_Isolation ==
    /\ [](\A i \in Calls :
            (state[i] # "idle" /\ headerOf[1] # headerOf[2]) => AsAlone(i))
    /\ [][\A i \in Calls : \A j \in Calls \ {i} :
            (Ends(i) /\ headerOf[i] # headerOf[j]) => Untouched(j)]_vars

\* both calls got messages of their own processes, the first ended with a
\* file found after two messages while the second was still running, which
\* then had a different result
C11_Witness ==
    /\ headerOf[1] # headerOf[2]
    /\ state[1] = "complete" /\ Len(log[1]) >= 2
    /\ Len(emitted[1]) = 1 /\ emitted[1][1].kind = "file"
    /\ state[2] = "complete" /\ Len(log[2]) >= 2
    /\ Len(emitted[2]) = 1 /\ emitted[2][1].kind = "file"
    /\ emitted[1] # emitted[2]
    /\ log[1][1].kind = "stdout" /\ log[2][1].kind = "stderr"

---------------------------------------------------------------------------
(* C15 *)

\* the message is an output line with no "\0" separator in it
Malformed(message) == message.kind = "stdout" /\ Len(message.data) < 2

\* the message is an output line that survives the filter: processGrepResult
\* in the call of i returns a file name for it
Survives(i, message) ==
    /\ message.kind = "stdout"
    /\ processGrepResult(message.data, headerOf[i], projectRoot) # Null

\* the messages of the process of i before its last one
Earlier(i) == 1..(Len(log[i]) - 1)

\* the last message the process of i delivered
LastMessage(i) == log[i][Len(log[i])]

\* C15: a line of the process's output with no null separator is skipped:
\* the step that delivers it emits nothing, raises no error and leaves the
\* search active and its process running; when a line that survives the
\* filter is delivered after it the search still emits that line's file,
\* and when the process exits with no such line the search emits NotFound.
C15_MalformedLineSkipped ==
    /\ [][\A i \in Calls :
            (Len(log'[i]) = Len(log[i]) + 1 /\ Malformed(log'[i][Len(log'[i])]))
            => /\ state'[i] = "active" /\ proc'[i] = "running"
               /\ emitted'[i] = <<>> /\ error'[i] = ""]_vars
    /\ [](\A i \in Calls :
            (\E k \in Earlier(i) : Malformed(log[i][k])) =>
                /\ Survives(i, LastMessage(i)) =>
                       emitted[i] = <<Found(LastMessage(i).data[1])>>
                /\ LastMessage(i).kind = "exit" => emitted[i] = <<NotFound>>)

\* a line without separator was delivered, then a surviving line, whose
\* file the search emitted
C15_Witness ==
    \E i \in Calls :
        /\ \E k \in Earlier(i) : Malformed(log[i][k])
        /\ Survives(i, LastMessage(i))
        /\ emitted[i] = <<Found(LastMessage(i).data[1])>>
        /\ state[i] = "complete"

---------------------------------------------------------------------------
(* C16 *)

\* the positions of the surviving lines among the messages delivered to i
Survivors(i) == {k \in 1..Len(log[i]) : Survives(i, log[i][k])}

\* the message neither produces a result nor ends the search: a line on
\* standard error, or an output line the filter discards
Passed(i, message) ==
    \/ message.kind = "stderr"
    \/ message.kind = "stdout" /\ ~Survives(i, message)

\* C16: when a search emits a file name, it is the file of the earliest
\* message, in the order delivered, that is a surviving output line; the
\* messages before it are lines on standard error and discarded lines, and
\* they produced no result and did not end the search (while only such
\* messages were delivered nothing is emitted and the search has neither
\* completed nor failed); no message follows the surviving line, so no
\* later line replaces the result.
C16_EarliestSurvivingLine ==
    \A i \in Calls :
        /\ (emitted[i] # <<>> /\ emitted[i][1].kind = "file") =>
               /\ Survivors(i) # {}
               /\ LET k == CHOOSE n \in Survivors(i) :
                               \A m \in Survivors(i) : n <= m
                  IN  /\ emitted[i] = <<Found(log[i][k].data[1])>>
                      /\ k = Len(log[i])
                      /\ \A m \in 1..(k - 1) : Passed(i, log[i][m])
        /\ (\A m \in 1..Len(log[i]) : Passed(i, log[i][m])) =>
               /\ emitted[i] = <<>> /\ error[i] = ""
               /\ state[i] \in {"idle", "active", "unsubscribed"}
               /\ state[i] = "active" => proc[i] = "running"

\* a line on standard error came first, then a surviving line, whose file
\* was emitted, while another surviving line of the output was still to
\* come
C16_Witness ==
    \E i \in Calls :
        /\ Len(log[i]) = 2
        /\ log[i][1].kind = "stderr"
        /\ Survives(i, log[i][2])
        /\ emitted[i] = <<Found(log[i][2].data[1])>>
        /\ \E f \in fs :
              /\ f.path # log[i][2].data[1]
              /\ Survives(i, StdoutMessage(GrepLine(f)))
              /\ GrepLine(f) \in GrepOutput(headerOf[i], projectRoot, fs)

---------------------------------------------------------------------------
(* C12 *)

\* limitString returned
Returned == limitResult # <<>>

\* the string given, and the length given or the default of 20
GivenStr == limitArgs[1]
GivenLength == IF Len(limitArgs) >= 2 THEN limitArgs[2] ELSE 20

\* the first and the last n characters of a string
First(str, n) == SubSeq(str, 1, n)
Last(str, n) == SubSeq(str, Len(str) - n + 1, Len(str))

\* C12: for an even length (20 when none is given), limitString of a
\* string of more than length characters is its first length/2 characters,
\* one ellipsis and its last length/2 characters, length + 1 characters in
\* all; a string of at most length characters is returned unchanged.
C12_EvenLength ==
    (Returned /\ GivenLength % 2 = 0) =>
        LET half == GivenLength \div 2
        IN  IF Len(GivenStr) > GivenLength
            THEN /\ limitResult[1] = First(GivenStr, half) \o <<Ellipsis>>
                                     \o Last(GivenStr, half)
                 /\ Len(limitResult[1]) = GivenLength + 1
            ELSE limitResult[1] = GivenStr

\* a string of more than 20 characters was cut with the default length
C12_Witness ==
    /\ Returned /\ Len(limitArgs) = 1
    /\ Len(GivenStr) > 20
    /\ Len(limitResult[1]) = 21
    /\ limitResult[1][11] = Ellipsis

---------------------------------------------------------------------------
(* C17 *)

\* C17, as stated: for an odd length and a longer string the result is the
\* first floor(length/2) characters, one ellipsis and the last
\* floor(length/2) characters, and has length characters.
C17_OddBothTruncated ==
    (Returned /\ GivenLength % 2 = 1 /\ Len(GivenStr) > GivenLength) =>
        LET half == GivenLength \div 2
        IN  /\ limitResult[1] = First(GivenStr, half) \o <<Ellipsis>>
                                \o Last(GivenStr, half)
            /\ Len(limitResult[1]) = GivenLength

\* C17, amended: for an odd length and a longer string the result is the
\* first floor(length/2) characters, one ellipsis and the last
\* floor(length/2) + 1 characters, and has length + 1 characters, as for
\* even lengths.
C17_OddLastRoundedUp ==
    (Returned /\ GivenLength % 2 = 1 /\ Len(GivenStr) > GivenLength) =>
        LET half == GivenLength \div 2
        IN  /\ limitResult[1] = First(GivenStr, half) \o <<Ellipsis>>
                                \o Last(GivenStr, half + 1)
            /\ Len(limitResult[1]) = GivenLength + 1

\* limitString("abcdef", 3) returned "a", the ellipsis, "ef"
C17_Witness ==
    /\ Returned
    /\ limitArgs = <<SubSeq(Alphabet, 1, 6), 3>>
    /\ limitResult[1] = <<"a", Ellipsis, "e", "f">>

---------------------------------------------------------------------------
(* C13 *)

\* the step is a call of _toggleCollapsed
Toggled == toggles' = toggles + 1

\* C13: while the collapsed prop is absent a toggle flips isCollapsed and
\* calls onChange not at all; while it is given a toggle calls onChange, if
\* that is a function, once with the negation of the prop and leaves
\* isCollapsed as it was; and with the prop given, what is rendered as
\* collapsed is the prop.
C13_ToggleModes ==
    /\ [][Toggled =>
            IF sectionProps.collapsed = Undefined
            THEN /\ isCollapsed' = ~isCollapsed
                 /\ onChangeCalls' = onChangeCalls
            ELSE /\ isCollapsed' = isCollapsed
                 /\ onChangeCalls' =
                        IF sectionProps.onChange = <<"function">>
                        THEN Append(onChangeCalls, ~sectionProps.collapsed[1])
                        ELSE onChangeCalls]_vars
    /\ [](sectionProps.collapsed # Undefined =>
            render(sectionProps, isCollapsed).collapsed
                = sectionProps.collapsed[1])

\* a controlled Section rendered collapsed while its own state says
\* expanded, toggled twice with onChange called each time
C13_Witness ==
    /\ sectionProps.collapsed = <<TRUE>>
    /\ sectionProps.onChange = <<"function">>
    /\ ~isCollapsed
    /\ render(sectionProps, isCollapsed).collapsed
    /\ toggles = 2
    /\ onChangeCalls = <<FALSE, FALSE>>

---------------------------------------------------------------------------
(* C14 *)

\* the visibility last reported through didChangeVisibility, none so far
LastReported == IF reported = <<>> THEN <<>> ELSE <<reported[Len(reported)]>>

\* C14: after any calls of didChangeVisibility the props stream delivers a
\* value to its subscriber only in a step after which the visibility last
\* reported is true (or none was reported, the panel starting visible);
\* and the step that reports true after false delivers the latest value
\* the props stream emitted, and nothing else.
C14_GatedByVisibility ==
    /\ [][delivered' # delivered => LastReported' \in {<<>>, <<TRUE>>}]_vars
    /\ [][(LastReported = <<FALSE>> /\ LastReported' = <<TRUE>>
             /\ propsEmitted > 0)
          => delivered' = Append(delivered, propsEmitted)]_vars

\* a value was delivered, the panel was hidden while the next was emitted,
\* and shown again: the value emitted meanwhile was delivered then
C14_Witness ==
    /\ reported = <<FALSE, TRUE>>
    /\ propsEmitted = 2
    /\ delivered = <<1, 2>>

---------------------------------------------------------------------------
(* C18 *)

\* C18: in every state reached by calls of addTestRunner and disposals of
\* what it returned, an Activation with no test runner registered displays
\* neither the item for files, nor the item for directories, nor the
\* separator, whatever the event and the selected node; and the separator
\* displays exactly when one of the two items does.
C18_NoRunnersNoOption ==
    \A a \in Activations : \A node \in Nodes : \A event \in Events :
        /\ testRunners[a] = {} =>
               /\ ~shouldDisplay(a, TRUE, node, event)
               /\ ~shouldDisplay(a, FALSE, node, event)
               /\ ~separatorShouldDisplay(a, node, event)
        /\ separatorShouldDisplay(a, node, event)
               <=> \/ shouldDisplay(a, TRUE, node, event)
                   \/ shouldDisplay(a, FALSE, node, event)

\* the one runner of the live Activation was removed again, and a click on
\* the name of a selected file, which displayed the item while the runner
\* was there, displays nothing
C18_Witness ==
    /\ activation # 0
    /\ testRunners[activation] = {}
    /\ \E n \in 1..Len(registrations) :
          registrations[n].activation = activation /\ registrations[n].disposed
    /\ \E event \in Events :
          /\ event.target.name # <<>> /\ event.target.path # <<>>
          /\ shouldDisplayItem(TRUE, <<[isContainer |-> FALSE]>>)
          /\ ~shouldDisplay(activation, TRUE, <<[isContainer |-> FALSE]>>,
                            event)

---------------------------------------------------------------------------
(* C19 *)

\* the calls that invoke getController
GetControllerCalls == Routes \cup {"deserializeTestRunnerPanelState"}

\* C19: a step that constructs a TestRunnerController is a call of
\* getController by a command, the opener or deserialization, never a call
\* of addTestRunner or a disposal; didUpdateTestRunners is called on the
\* controller of an Activation only when that Activation had one already;
\* an Activation constructs at most one controller, and every call of
\* getController returns that one.
C19_ControllerNotForced ==
    /\ [][controllers' # controllers
          => lastCall'.op \in GetControllerCalls]_vars
    /\ [][\A a \in Activations :
            updates'[a] # updates[a] => controllers[a] # 0]_vars
    /\ [](\A a \in Activations : controllers[a] <= 1)
    /\ [](lastCall.op \in GetControllerCalls =>
            /\ lastCall.returned[2] = 1
            /\ controllers[lastCall.returned[1]] = 1)

\* an Activation got one runner before it had a controller and one after:
\* only the second was told to the controller, which two calls of
\* getController returned
C19_Witness ==
    /\ activation # 0
    /\ controllers[activation] = 1
    /\ updates[activation] = 1
    /\ Cardinality(testRunners[activation]) = 2
    /\ lastCall.op = "command"
    /\ lastCall.returned = <<activation, 1>>

---------------------------------------------------------------------------
(* C20 *)

\* the runners added to Activation a by calls whose Disposable has not
\* been disposed
Registered(a) ==
    { registrations[n].testRunner :
        n \in { m \in 1..Len(registrations) :
                  /\ registrations[m].activation = a
                  /\ ~registrations[m].disposed } }

\* C20: the test runners of an Activation are exactly those added to it by
\* a call of addTestRunner whose Disposable has not been disposed; a call
\* of addTestRunner with a runner already registered leaves the set as it
\* is, returns no Disposable and does not notify the controller; and the
\* first dispose() of a Disposable returned removes its runner.
C20_Registry ==
    /\ [](\A a \in Activations : testRunners[a] = Registered(a))
    /\ [][(/\ lastCall'.op = "addTestRunner"
           /\ activation # 0
           /\ lastCall'.testRunner \in testRunners[activation])
          => /\ testRunners' = testRunners
             /\ registrations' = registrations
             /\ lastCall'.returned = <<>>
             /\ updates' = updates]_vars
    /\ [][(/\ lastCall'.op = "dispose"
           /\ ~registrations[lastCall'.registration].disposed)
          => LET reg == registrations[lastCall'.registration]
             IN  /\ reg.testRunner \in testRunners[reg.activation]
                 /\ reg.testRunner \notin testRunners'[reg.activation]]_vars

\* a runner was added, removed through its Disposable, added again, and
\* then added once more while registered, which returned nothing
C20_Witness ==
    /\ activation # 0
    /\ Len(registrations) = 2
    /\ registrations[1] = [activation |-> activation,
                           testRunner |-> "runner1", disposed |-> TRUE]
    /\ registrations[2] = [activation |-> activation,
                           testRunner |-> "runner1", disposed |-> FALSE]
    /\ testRunners[activation] = {"runner1"}
    /\ lastCall = Added("runner1", <<>>)

---------------------------------------------------------------------------
(* C21 *)

\* the Activations constructed and not disposed
Live == { a \in 1..activations : disposals[a] = 0 }

\* a step changes nothing of the package but the call recorded
OnlyCalled ==
    /\ activation' = activation /\ activations' = activations
    /\ commands' = commands /\ disposals' = disposals /\ menus' = menus
    /\ controllers' = controllers /\ testRunners' = testRunners

\* C21: over any calls of activate, deactivate and
\* deserializeTestRunnerPanelState there is at most one live Activation,
\* the one the module holds, and only a live Activation has commands
\* registered; activate with an Activation live constructs none and
\* registers no command; deactivate with an Activation live disposes that
\* one, once, and leaves the module with none, and without one does
\* nothing; deserializeTestRunnerPanelState returns the controller of the
\* Activation live after it, which is the one that was live before or,
\* when none was, a new one.
C21_SingletonLifecycle ==
    /\ [](Live = IF activation = 0 THEN {} ELSE {activation})
    /\ [](\A a \in Activations :
            /\ disposals[a] <= 1
            /\ commands[a] = IF a \in Live THEN ConstructorCommands ELSE 0)
    /\ [][(lastCall'.op = "activate" /\ activation # 0) => OnlyCalled]_vars
    /\ [][lastCall'.op = "deactivate" =>
            IF activation # 0
            THEN /\ activation' = 0
                 /\ disposals' = [disposals EXCEPT ![activation] = 1]
                 /\ commands' = [commands EXCEPT ![activation] = 0]
                 /\ activations' = activations
            ELSE OnlyCalled]_vars
    /\ [][lastCall'.op = "deserializeTestRunnerPanelState" =>
            /\ activation' # 0 /\ activation' \in Live'
            /\ lastCall'.returned = <<activation', 1>>
            /\ controllers'[activation'] = 1
            /\ IF activation # 0
               THEN activation' = activation /\ activations' = activations
               ELSE activation' = activations + 1
                    /\ activations' = activations + 1]_vars

\* the first Activation was disposed by deactivate and deserialization
\* activated the package again: it returned the controller of the second
\* Activation, the only one with commands registered
C21_Witness ==
    /\ activations = 2 /\ activation = 2
    /\ disposals = [a \in Activations |-> IF a = 1 THEN 1 ELSE 0]
    /\ commands[1] = 0 /\ commands[2] = ConstructorCommands
    /\ lastCall = [op |-> "deserializeTestRunnerPanelState",
                   returned |-> <<2, 1>>]

---------------------------------------------------------------------------
(* C22 *)

\* C22: once the Disposable a call of addItemsToFileTreeContextMenu
\* returned has been disposed, none of the three items the call added is
\* registered in the context menu; and once the Activation that added
\* them has been disposed, none is either.
C22_MenuItemsCleanedUp ==
    \A n \in 1..Len(menus) :
        /\ menus[n].disposed => menus[n].items = {}
        /\ disposals[menus[n].activation] > 0 => menus[n].items = {}

=============================================================================
